---- MODULE Spec2Model ----
(***************************************************************************)
(* Model of docs/architecture-diagram.py: create_architecture_diagram().   *)
(*                                                                         *)
(* The function builds a matplotlib figure, adds 59 artists to its axes,   *)
(* rasterises the CURRENT pyplot figure to an in-memory PNG, reopens it    *)
(* with PIL and saves it as WEBP to a fixed path, closes the CURRENT       *)
(* pyplot figure and prints a confirmation line.                           *)
(*                                                                         *)
(* Library calls are modelled by what they do to the state the function    *)
(* can observe:                                                            *)
(*  - pyplot keeps a process-wide registry of open figures whose last      *)
(*    entry is the current figure; plt.subplots registers a new figure,    *)
(*    plt.tight_layout / plt.savefig / plt.close act on the current one    *)
(*    (plt.gcf() creates a blank figure when the registry is empty);       *)
(*  - a figure is painted in z-order (patches 1, text 3), ties in          *)
(*    insertion order;                                                     *)
(*  - Image.save(path) opens the path "w+b" (create or truncate), then     *)
(*    encodes, then writes; when that fails it closes the file and removes *)
(*    it only if this call created it.                                     *)
(*                                                                         *)
(* Spec     : one caller invoking the function up to MaxRuns times in a    *)
(*            row in one process (a failed run is followed by the next).   *)
(* SpecConc : two invocations in one process, steps interleaved.           *)
(***************************************************************************)
EXTENDS Naturals, Sequences, FiniteSets, TLC

\* Number of invocations in a row under Spec.
MaxRuns == 2

Threads == {1, 2}

VARIABLES
    dir,        \* parent directory of the output path: "ok", "missing", "readonly"
    file,       \* the output path: [exists, bytes]
    figs,       \* pyplot's registry of open figures, current figure last
    children,   \* figure id -> artists added to its axes, in insertion order
    nextFig,    \* id of the next figure object
    nextRun,    \* id of the next invocation
    lastWrite,  \* invocation whose write to the output path finished last (0: none)
    runsLeft,   \* invocations each caller may still start
    pc,         \* per caller: the statement it is about to execute
    runId,      \* per caller: id of the invocation in progress
    fig,        \* local `fig, ax` of line 16 (0: not created)
    idx,        \* next artist of DrawProgram to add
    laid,       \* figure that this invocation's tight_layout acted on
    buffer,     \* io.BytesIO: [fig, painted] PNG raster of a figure
    image,      \* PIL image opened from the buffer
    webp,       \* encoded WEBP bytes held by Image.save
    created,    \* Image.save's local `created`
    fd,         \* Image.save's file object: "none", "attached", "detached"
    closed,     \* figure that this invocation's plt.close() closed
    printed,    \* confirmation lines printed by this invocation
    err,        \* exception that ended this invocation ("" none)
    failedAt,   \* statement that raised it ("" none)
    count,      \* statement -> number of times this invocation executed it
    before      \* the output path as it was when this invocation started

vars == <<dir, file, figs, children, nextFig, nextRun, lastWrite, runsLeft,
          pc, runId, fig, idx, laid, buffer, image, webp, created, fd,
          closed, printed, err, failedAt, count, before>>

shared == <<dir, file, figs, children, nextFig, nextRun, lastWrite, runsLeft>>

----------------------------------------------------------------------------
\* The artists in the order the source adds them to the axes.

Rep(k, n) == [i \in 1..n |-> k]

Title == <<"text">>
PlainBox == <<"shape", "text">>
StencilBox == <<"shape", "text", "text">>

DrawProgram ==
    Title \o PlainBox \o PlainBox
          \o StencilBox \o StencilBox \o StencilBox
          \o StencilBox \o StencilBox \o StencilBox
          \o Rep("arrow", 8)
          \o Rep("text", 8) \o Rep("text", 4)
          \o Rep("text", 9) \o Rep("text", 7)

NumArtists == Len(DrawProgram)

Kind(i) == DrawProgram[i]

\* Variant: every artist at the same z-order (painting in insertion order).
ZOrderFlat(k) == 1
\* matplotlib z-order: FancyBboxPatch and ConnectionPatch are patches (1),
\* Text is 3.
ZOrder(k) == IF k = "text" THEN 3 ELSE 1

ZLevels == <<1, 2, 3>>

\* Figure.draw: artists sorted by z-order, stable.
RECURSIVE PaintFrom(_, _)
PaintFrom(ch, z) ==
    IF z > Len(ZLevels) THEN <<>>
    ELSE SelectSeq(ch, LAMBDA i : ZOrder(Kind(i)) = ZLevels[z]) \o PaintFrom(ch, z + 1)

PaintOrder(ch) == PaintFrom(ch, 1)

FullFigure == [i \in 1..NumArtists |-> i]

----------------------------------------------------------------------------
\* Files and images.

NoFile == [exists |-> FALSE, bytes |-> <<>>]
NoBuf == [fig |-> 0, painted |-> <<>>]

Range(s) == {s[i] : i \in 1..Len(s)}

\* Size of the encoding grows with what was painted.
EncodedLen(painted) == 1 + Cardinality({Kind(i) : i \in Range(painted)})

\* Byte i of n of the image encoded by invocation r.
Encode(r, painted) ==
    [i \in 1..EncodedLen(painted) |-> <<r, i, EncodedLen(painted)>>]

\* A file left by an earlier execution of the script.
OldFile == [exists |-> TRUE, bytes |-> Encode(0, PaintOrder(FullFigure))]

\* write(2) at offset 0 of a file opened without O_APPEND.
WriteAt0(old, data) == data \o SubSeq(old, Len(data) + 1, Len(old))

IsComplete(bytes) ==
    /\ Len(bytes) >= 1
    /\ bytes = [i \in 1..Len(bytes) |-> <<bytes[1][1], i, Len(bytes)>>]

WrittenBy(bytes, r) == IsComplete(bytes) /\ bytes[1][1] = r

\* Variant: exclusive creation, open(filename, "x+b").
OpenOutcomeExclusive(d, exists) == IF d = "ok" /\ ~exists THEN "ok" ELSE "error"
\* Variant: the directory is created or made writable before the open.
OpenOutcomeMkdirs(d, exists) == "ok"
\* builtins.open(filename, "w+b"): the directory must exist, and must be
\* writable when the file has to be created.
OpenOutcome(d, exists) ==
    IF d = "missing" THEN "error"
    ELSE IF d = "readonly" /\ ~exists THEN "error"
    ELSE "ok"

----------------------------------------------------------------------------
\* Control flow of the function body.

\* Variant: the confirmation printed before the save.
StepOrderPrintFirst ==
    <<"subplots", "draw", "tight_layout", "savefig", "open_image", "print",
      "save_open", "save_encode", "save_write", "close", "done">>
\* Statements of the body in source order; image.save (line 205) is the
\* three steps save_open, save_encode, save_write.
StepOrder ==
    <<"subplots", "draw", "tight_layout", "savefig", "open_image",
      "save_open", "save_encode", "save_write", "close", "print", "done">>

Steps == Range(StepOrder) \ {"done"}

Pos(step) == CHOOSE i \in 1..Len(StepOrder) : StepOrder[i] = step

After(step) == StepOrder[Pos(step) + 1]

\* Variant: the exception is caught and the body goes on.
PcAfterRaiseSwallow(step) == After(step)
\* No try/except in the function: an exception ends the invocation.
PcAfterRaise(step) == "failed"

Executed(t, step) == count' = [count EXCEPT ![t][step] = @ + 1]

Advance(t, step) ==
    /\ pc' = [pc EXCEPT ![t] = After(step)]
    /\ Executed(t, step)
    /\ UNCHANGED <<err, failedAt>>

Raise(t, step, e) ==
    /\ pc' = [pc EXCEPT ![t] = PcAfterRaise(step)]
    /\ err' = [err EXCEPT ![t] = e]
    /\ failedAt' = [failedAt EXCEPT ![t] = step]
    /\ Executed(t, step)

----------------------------------------------------------------------------
\* pyplot's current figure.

GcfId == IF figs = <<>> THEN nextFig ELSE figs[Len(figs)]
GcfFigs == IF figs = <<>> THEN <<nextFig>> ELSE figs
GcfChildren == IF figs = <<>> THEN children @@ (nextFig :> <<>>) ELSE children
GcfNextFig == IF figs = <<>> THEN nextFig + 1 ELSE nextFig

----------------------------------------------------------------------------
InitCommon ==
    /\ dir \in {"ok", "missing", "readonly"}
    /\ file \in (IF dir = "missing" THEN {NoFile} ELSE {NoFile, OldFile})
    /\ figs = <<>>
    /\ children = <<>>
    /\ nextFig = 1
    /\ nextRun = 1
    /\ lastWrite = 0
    /\ pc = [t \in Threads |-> "idle"]
    /\ runId = [t \in Threads |-> 0]
    /\ fig = [t \in Threads |-> 0]
    /\ idx = [t \in Threads |-> 1]
    /\ laid = [t \in Threads |-> 0]
    /\ buffer = [t \in Threads |-> NoBuf]
    /\ image = [t \in Threads |-> NoBuf]
    /\ webp = [t \in Threads |-> <<>>]
    /\ created = [t \in Threads |-> FALSE]
    /\ fd = [t \in Threads |-> "none"]
    /\ closed = [t \in Threads |-> 0]
    /\ printed = [t \in Threads |-> 0]
    /\ err = [t \in Threads |-> ""]
    /\ failedAt = [t \in Threads |-> ""]
    /\ count = [t \in Threads |-> [s \in Steps |-> 0]]
    /\ before = [t \in Threads |-> NoFile]

Init ==
    /\ InitCommon
    /\ runsLeft = [t \in Threads |-> IF t = 1 THEN MaxRuns ELSE 0]

InitConc ==
    /\ InitCommon
    /\ runsLeft = [t \in Threads |-> 1]

----------------------------------------------------------------------------
\* line 211 / a caller: create_architecture_diagram()
Invoke(t) ==
    /\ pc[t] \in {"idle", "done", "failed"}
    /\ runsLeft[t] > 0
    /\ runsLeft' = [runsLeft EXCEPT ![t] = @ - 1]
    /\ runId' = [runId EXCEPT ![t] = nextRun]
    /\ nextRun' = nextRun + 1
    /\ pc' = [pc EXCEPT ![t] = StepOrder[1]]
    /\ fig' = [fig EXCEPT ![t] = 0]
    /\ idx' = [idx EXCEPT ![t] = 1]
    /\ laid' = [laid EXCEPT ![t] = 0]
    /\ buffer' = [buffer EXCEPT ![t] = NoBuf]
    /\ image' = [image EXCEPT ![t] = NoBuf]
    /\ webp' = [webp EXCEPT ![t] = <<>>]
    /\ created' = [created EXCEPT ![t] = FALSE]
    /\ fd' = [fd EXCEPT ![t] = "none"]
    /\ closed' = [closed EXCEPT ![t] = 0]
    /\ printed' = [printed EXCEPT ![t] = 0]
    /\ err' = [err EXCEPT ![t] = ""]
    /\ failedAt' = [failedAt EXCEPT ![t] = ""]
    /\ count' = [count EXCEPT ![t] = [s \in Steps |-> 0]]
    /\ before' = [before EXCEPT ![t] = file]
    /\ UNCHANGED <<dir, file, figs, children, nextFig, lastWrite>>

\* lines 16-19: fig, ax = plt.subplots(...); axis limits; axis off
Subplots(t) ==
    /\ pc[t] = "subplots"
    /\ \E ok \in BOOLEAN :
         IF ok
         THEN /\ fig' = [fig EXCEPT ![t] = nextFig]
              /\ figs' = Append(figs, nextFig)
              /\ children' = children @@ (nextFig :> <<>>)
              /\ nextFig' = nextFig + 1
              /\ Advance(t, "subplots")
         ELSE /\ Raise(t, "subplots", "FigureError")
              /\ UNCHANGED <<fig, figs, children, nextFig>>
    /\ UNCHANGED <<dir, file, nextRun, lastWrite, runsLeft, runId, idx, laid,
                   buffer, image, webp, created, fd, closed, printed, before>>

\* lines 35-194: one ax.text / ax.add_patch call, on the local axes
Draw(t) ==
    /\ pc[t] = "draw"
    /\ idx[t] <= NumArtists
    /\ children' = [children EXCEPT ![fig[t]] = Append(@, idx[t])]
    /\ idx' = [idx EXCEPT ![t] = @ + 1]
    /\ pc' = [pc EXCEPT ![t] = IF idx[t] = NumArtists THEN After("draw") ELSE "draw"]
    /\ Executed(t, "draw")
    /\ UNCHANGED <<dir, file, figs, nextFig, nextRun, lastWrite, runsLeft,
                   runId, fig, laid, buffer, image, webp, created, fd, closed,
                   printed, err, failedAt, before>>

\* line 196: plt.tight_layout()
TightLayout(t) ==
    /\ pc[t] = "tight_layout"
    /\ laid' = [laid EXCEPT ![t] = GcfId]
    /\ figs' = GcfFigs
    /\ children' = GcfChildren
    /\ nextFig' = GcfNextFig
    /\ Advance(t, "tight_layout")
    /\ UNCHANGED <<dir, file, nextRun, lastWrite, runsLeft, runId, fig, idx,
                   buffer, image, webp, created, fd, closed, printed, before>>

\* lines 199-201: buffer = io.BytesIO(); plt.savefig(buffer, format='png', ...); seek(0)
Savefig(t) ==
    /\ pc[t] = "savefig"
    /\ figs' = GcfFigs
    /\ children' = GcfChildren
    /\ nextFig' = GcfNextFig
    /\ \E ok \in BOOLEAN :
         IF ok
         THEN /\ buffer' = [buffer EXCEPT ![t] =
                     [fig |-> GcfId, painted |-> PaintOrder(GcfChildren[GcfId])]]
              /\ Advance(t, "savefig")
         ELSE /\ Raise(t, "savefig", "RasterError")
              /\ UNCHANGED buffer
    /\ UNCHANGED <<dir, file, nextRun, lastWrite, runsLeft, runId, fig, idx,
                   laid, image, webp, created, fd, closed, printed, before>>

\* line 204: image = Image.open(buffer)
OpenImage(t) ==
    /\ pc[t] = "open_image"
    /\ \E ok \in BOOLEAN :
         IF ok
         THEN /\ image' = [image EXCEPT ![t] = buffer[t]]
              /\ Advance(t, "open_image")
         ELSE /\ Raise(t, "open_image", "DecodeError")
              /\ UNCHANGED image
    /\ UNCHANGED <<shared, runId, fig, idx, laid, buffer, webp, created, fd,
                   closed, printed, before>>

\* line 205, first part of Image.save: created = not exists; open(path, "w+b")
SaveOpen(t) ==
    /\ pc[t] = "save_open"
    /\ IF OpenOutcome(dir, file.exists) = "ok"
       THEN /\ created' = [created EXCEPT ![t] = ~file.exists]
            /\ file' = [exists |-> TRUE, bytes |-> <<>>]
            /\ fd' = [fd EXCEPT ![t] = "attached"]
            /\ Advance(t, "save_open")
       ELSE /\ Raise(t, "save_open", "OpenError")
            /\ UNCHANGED <<created, file, fd>>
    /\ UNCHANGED <<dir, figs, children, nextFig, nextRun, lastWrite, runsLeft,
                   runId, fig, idx, laid, buffer, image, webp, closed, printed,
                   before>>

\* Image.save's except/finally: close the file; os.remove(path) if created.
\* `bytes` is the content the failed call leaves in the file it opened.
Cleanup(t, bytes) ==
    /\ IF created[t] /\ file.exists
       THEN /\ file' = NoFile
            /\ fd' = [u \in Threads |-> IF u = t THEN "none"
                                        ELSE IF fd[u] = "attached" THEN "detached"
                                        ELSE fd[u]]
       ELSE /\ file' = IF fd[t] = "attached" THEN [file EXCEPT !.bytes = bytes]
                       ELSE file
            /\ fd' = [fd EXCEPT ![t] = "none"]

\* line 205, WebPImagePlugin._save: data = encoder(...) with quality=90
SaveEncode(t) ==
    /\ pc[t] = "save_encode"
    /\ \E ok \in BOOLEAN :
         IF ok
         THEN /\ webp' = [webp EXCEPT ![t] = Encode(runId[t], image[t].painted)]
              /\ Advance(t, "save_encode")
              /\ UNCHANGED <<file, fd>>
         ELSE /\ Cleanup(t, file.bytes)
              /\ Raise(t, "save_encode", "EncodeError")
              /\ UNCHANGED webp
    /\ UNCHANGED <<dir, figs, children, nextFig, nextRun, lastWrite, runsLeft,
                   runId, fig, idx, laid, buffer, image, created, closed,
                   printed, before>>

\* line 205, end of Image.save: fp.write(data); fp.close()
\* k bytes reach the file; k < len(data) is an I/O error during the write.
SaveWrite(t) ==
    /\ pc[t] = "save_write"
    /\ \E k \in 0..Len(webp[t]) :
         IF k = Len(webp[t])
         THEN /\ file' = IF fd[t] = "attached"
                         THEN [file EXCEPT !.bytes = WriteAt0(@, webp[t])]
                         ELSE file
              /\ fd' = [fd EXCEPT ![t] = "none"]
              /\ lastWrite' = runId[t]
              /\ Advance(t, "save_write")
         ELSE /\ Cleanup(t, WriteAt0(file.bytes, SubSeq(webp[t], 1, k)))
              /\ Raise(t, "save_write", "WriteError")
              /\ UNCHANGED lastWrite
    /\ UNCHANGED <<dir, figs, children, nextFig, nextRun, runsLeft, runId, fig,
                   idx, laid, buffer, image, webp, created, closed, printed,
                   before>>

\* line 207: plt.close()
ClosePlt(t) ==
    /\ pc[t] = "close"
    /\ IF figs = <<>>
       THEN UNCHANGED <<figs, closed>>
       ELSE /\ closed' = [closed EXCEPT ![t] = figs[Len(figs)]]
            /\ figs' = SubSeq(figs, 1, Len(figs) - 1)
    /\ Advance(t, "close")
    /\ UNCHANGED <<dir, file, children, nextFig, nextRun, lastWrite, runsLeft,
                   runId, fig, idx, laid, buffer, image, webp, created, fd,
                   printed, before>>

\* line 208: print("... saved as docs/architecture-overview.webp")
PrintLine(t) ==
    /\ pc[t] = "print"
    /\ printed' = [printed EXCEPT ![t] = @ + 1]
    /\ Advance(t, "print")
    /\ UNCHANGED <<shared, runId, fig, idx, laid, buffer, image, webp, created,
                   fd, closed, before>>

Next ==
    \E t \in Threads :
        \/ Invoke(t)
        \/ Subplots(t)
        \/ Draw(t)
        \/ TightLayout(t)
        \/ Savefig(t)
        \/ OpenImage(t)
        \/ SaveOpen(t)
        \/ SaveEncode(t)
        \/ SaveWrite(t)
        \/ ClosePlt(t)
        \/ PrintLine(t)

Spec == Init /\ [][Next]_vars

SpecConc == InitConc /\ [][Next]_vars

----------------------------------------------------------------------------
\* Properties.

Finished(t) == pc[t] \in {"done", "failed"}

\* Back-to-front phase of an artist kind.
Phase(k) == IF k = "shape" THEN 1 ELSE IF k = "arrow" THEN 2 ELSE 3

\* A sequence of artists is in phases: shapes, then arrows, then text.
InPhases(s) ==
    \A i \in 1..Len(s) : \A j \in 1..Len(s) :
        i < j => Phase(Kind(s[i])) <= Phase(Kind(s[j]))

\* C1: when a run has ended, successfully or not, the output path holds the
\* complete image written by that run, or it is as it was before the run;
\* it never holds a partially written file.
C1_AllOrNothing ==
    \A t \in Threads :
        Finished(t) =>
            \/ file.exists /\ WrittenBy(file.bytes, runId[t])
            \/ file = before[t]

\* Image.save was reached by the run of t.
SaveAttempted(t) == count[t]["save_open"] > 0

\* C2 (as stated): when the parent directory is missing or not writable, a
\* run that got as far as the save has failed with an I/O error, no file
\* exists at the output path and no confirmation was printed.
C2_BadDirFails ==
    \A t \in Threads :
        (SaveAttempted(t) /\ dir \in {"missing", "readonly"}) =>
            /\ pc[t] = "failed"
            /\ err[t] = "OpenError"
            /\ ~file.exists
            /\ printed[t] = 0

\* C2 (amended): the same, for a directory that is missing, or that is not
\* writable while no file exists yet at the output path.
C2_BadDirNoFileFails ==
    \A t \in Threads :
        (SaveAttempted(t) /\ (dir = "missing" \/ (dir = "readonly" /\ ~before[t].exists))) =>
            /\ pc[t] = "failed"
            /\ err[t] = "OpenError"
            /\ ~file.exists
            /\ printed[t] = 0

C2_Witness ==
    /\ pc[1] = "failed"
    /\ err[1] = "OpenError"
    /\ failedAt[1] = "save_open"
    /\ dir = "missing"
    /\ ~file.exists

\* C3: no statement of a run is executed twice; once a statement has raised,
\* the run is in its failed state, no later statement has been executed and
\* no confirmation has been printed.
C3_NoCatchNoRetry ==
    \A t \in Threads :
        /\ \A s \in Steps :
               count[t][s] <= (IF s = "draw" THEN NumArtists ELSE 1)
        /\ failedAt[t] # "" =>
               /\ pc[t] = "failed"
               /\ count[t][failedAt[t]] = 1
               /\ \A s \in Steps :
                      Pos(s) > Pos(failedAt[t]) => count[t][s] = 0
        /\ pc[t] = "failed" => (failedAt[t] # "" /\ printed[t] = 0)

C3_Witness ==
    /\ pc[1] = "failed"
    /\ failedAt[1] = "save_encode"
    /\ count[1]["savefig"] = 1
    /\ count[1]["save_write"] = 0
    /\ count[1]["close"] = 0

\* C4: a run that succeeded has printed the confirmation exactly once and
\* its complete image is at the output path; a run that failed has printed
\* nothing; whenever a run has printed, the file exists and is complete.
C4_PrintAfterWrite ==
    \A t \in Threads :
        /\ printed[t] <= 1
        /\ pc[t] = "done" =>
               (printed[t] = 1 /\ file.exists /\ WrittenBy(file.bytes, runId[t]))
        /\ pc[t] = "failed" => printed[t] = 0
        /\ printed[t] >= 1 => (file.exists /\ IsComplete(file.bytes))

C4_Witness ==
    /\ pc[1] = "done"
    /\ printed[1] = 1
    /\ WrittenBy(file.bytes, runId[1])

\* C5: with a valid output directory, opening the output path never fails,
\* whether or not a file is already there, and a run that succeeded leaves
\* exactly its own complete image at the path, replacing what was there.
C5_OverwriteSucceeds ==
    \A t \in Threads :
        dir = "ok" =>
            /\ err[t] # "OpenError"
            /\ failedAt[t] # "save_open"
            /\ pc[t] \in {"close", "print", "done"} =>
                   (file.exists /\ WrittenBy(file.bytes, runId[t]))

C5_Witness ==
    /\ pc[1] = "done"
    /\ runId[1] = 2
    /\ WrittenBy(before[1].bytes, 1)
    /\ WrittenBy(file.bytes, 2)

\* C6: each of two interleaved invocations lays out, rasterises and closes
\* only the figure it created, and the raster it takes is of its own,
\* completely drawn figure.
C6_Independent ==
    \A t \in Threads :
        /\ laid[t] \in {0, fig[t]}
        /\ buffer[t].fig \in {0, fig[t]}
        /\ closed[t] \in {0, fig[t]}
        /\ buffer[t].fig # 0 => buffer[t].painted = PaintOrder(FullFigure)

\* C7: once two invocations writing to the same path have both succeeded,
\* the file is exactly the complete image of the invocation whose write
\* finished last.
C7_LastWriterWins ==
    (\A t \in Threads : pc[t] = "done") =>
        (file.exists /\ WrittenBy(file.bytes, lastWrite))

\* C8 (as stated): artists are placed on the canvas in phases; no text is
\* added to a figure before the last shape and the last arrow.
C8_PlacedInPhases ==
    \A f \in DOMAIN children : InPhases(children[f])

\* C8 (amended): the raster is painted in phases, every shape before any
\* arrow and every arrow before any text, and every shape is added to the
\* axes before any arrow; text is added in between, in source order.
C8_PaintedInPhases ==
    /\ \A t \in Threads : InPhases(buffer[t].painted)
    /\ \A f \in DOMAIN children :
           \A i \in 1..Len(children[f]) : \A j \in 1..Len(children[f]) :
               (Kind(children[f][i]) = "arrow" /\ Kind(children[f][j]) = "shape")
                   => j < i

C8_Witness ==
    /\ pc[1] = "done"
    /\ Len(buffer[1].painted) = NumArtists
    /\ Kind(buffer[1].painted[1]) = "shape"
    /\ Kind(children[fig[1]][1]) = "text"

\* C9: the output path is not created, truncated or written by a run until
\* that run holds the complete WEBP encoding in memory.
C9_EncodedBeforeTouch ==
    \A t \in Threads :
        (pc[t] # "idle" /\ file # before[t]) => webp[t] # <<>>

\* C10: when a run has ended, successfully or not, the figure it created
\* is no longer open, so no figure stays registered between runs.
C10_NoOpenFigureLeft ==
    \A t \in Threads :
        Finished(t) => (fig[t] \notin Range(figs) /\ figs = <<>>)

====
